---------------------------- MODULE Spec2Model ----------------------------
(***************************************************************************)
(* A model of src/script.js (class WorldMap): the pan/zoom/camera-follow   *)
(* transform pipeline, the selection handling, the camera-follow animation *)
(* loop and the data loading with its lookups.                             *)
(*                                                                         *)
(* Numbers.  JavaScript numbers are modelled in fixed point with two       *)
(* decimals: the integer n stands for n/100.  A scale of 1.05 is 105, a    *)
(* length of 200 px is 20000.  Sums are exact; a product or quotient is    *)
(* rounded toward zero to two decimals (Mul, Div).                         *)
(***************************************************************************)
EXTENDS Integers, Sequences, FiniteSets, TLC

(***************************************************************************)
(* Bounds of the model.                                                    *)
(***************************************************************************)
\* rect sides of the pure-function probes: 0, 100 px, ..., MaxRect * 100 px
MaxRect == 2
\* translations of the pure-function probes: -MaxPan*50 px .. MaxPan*50 px
MaxPan == 6
\* transition requests (zoomToCountry, resetZoom) in one behaviour
MaxTransitions == 2
\* animation frames in one behaviour that run a camera-follow tick or an
\* in-between tick of a transition
MaxFrames == 1
\* camera-follow ticks that ran before the first state of SpecCamera
MaxTicks == 2
\* frame callbacks that may be pending at once
MaxLoops == 2

(***************************************************************************)
(* Fixed-point arithmetic.                                                 *)
(***************************************************************************)
Abs(a) == IF a < 0 THEN -a ELSE a

Sign(a) == IF a < 0 THEN -1 ELSE 1

\* n / d rounded toward zero (d # 0)
Quotient[n \in Int, d \in Int] == Sign(n) * Sign(d) * (Abs(n) \div Abs(d))

TruncDiv(a, b) == Quotient[a, b]

Mul(a, b) == TruncDiv(a * b, 100)

Div(a, b) == TruncDiv(a * 100, b)

\* NaN, the value a division 0 / 0 and a product Infinity * 0 give; it
\* stands apart from every number the model computes, and whatever is
\* computed from it is NaN again
NaN == 2000000000

Larger[m \in Int, n \in Int] ==
    IF m = NaN \/ n = NaN THEN NaN ELSE IF m >= n THEN m ELSE n

Smaller[m \in Int, n \in Int] ==
    IF m = NaN \/ n = NaN THEN NaN ELSE IF m <= n THEN m ELSE n

\* Math.max(a, b)
Max(a, b) == Larger[a, b]

\* Math.min(a, b)
Min(a, b) == Smaller[a, b]

(***************************************************************************)
(* d3.zoom transforms: {k, x, y}, a point p drawn at p * k + (x, y).       *)
(***************************************************************************)
zoomIdentity == [k |-> 100, x |-> 0, y |-> 0]

\* transform.translate(x, y) of d3-zoom
Translate(t, x, y) ==
    IF x = 0 /\ y = 0 THEN t
    ELSE [k |-> t.k,
          x |-> IF x = NaN \/ t.x = NaN THEN NaN ELSE t.x + Mul(t.k, x),
          y |-> IF y = NaN \/ t.y = NaN THEN NaN ELSE t.y + Mul(t.k, y)]

\* transform.scale(k) of d3-zoom
Scale(t, k) ==
    IF k = 100 THEN t ELSE [k |-> Mul(t.k, k), x |-> t.x, y |-> t.y]

\* the scale at or below which no panning is allowed (1.05)
BaseZoomLimit == 105

\* the share of the viewport that stays visible when panning (0.2)
KeepVisible == 20

\* A mutant of constrainTransform: the result is built as
\* zoomIdentity.scale(k).translate(x, y), which multiplies the pan by k.
constrainTransformSwapped(transform, rect) ==
    LET width == rect.width
        height == rect.height
        mapWidth == Mul(width, transform.k)
        mapHeight == Mul(height, transform.k)
        minX == -(mapWidth - Mul(width, KeepVisible))
        maxX == Mul(width, KeepVisible)
        minY == -(mapHeight - Mul(height, KeepVisible))
        maxY == Mul(height, KeepVisible)
        x == IF transform.k <= BaseZoomLimit THEN 0
             ELSE Max(minX, Min(maxX, transform.x))
        y == IF transform.k <= BaseZoomLimit THEN 0
             ELSE Max(minY, Min(maxY, transform.y))
    IN  Translate(Scale(zoomIdentity, transform.k), x, y)

\* A mutant of constrainTransform: the base-zoom test is scale < 1.05.
constrainTransformStrict(transform, rect) ==
    LET width == rect.width
        height == rect.height
        mapWidth == Mul(width, transform.k)
        mapHeight == Mul(height, transform.k)
        minX == -(mapWidth - Mul(width, KeepVisible))
        maxX == Mul(width, KeepVisible)
        minY == -(mapHeight - Mul(height, KeepVisible))
        maxY == Mul(height, KeepVisible)
        x == IF transform.k < BaseZoomLimit THEN 0
             ELSE Max(minX, Min(maxX, transform.x))
        y == IF transform.k < BaseZoomLimit THEN 0
             ELSE Max(minY, Min(maxY, transform.y))
    IN  Scale(Translate(zoomIdentity, x, y), transform.k)

\* A mutant of constrainTransform: y is clamped only if x was in its range.
constrainTransformCoupled(transform, rect) ==
    LET width == rect.width
        height == rect.height
        mapWidth == Mul(width, transform.k)
        mapHeight == Mul(height, transform.k)
        minX == -(mapWidth - Mul(width, KeepVisible))
        maxX == Mul(width, KeepVisible)
        minY == -(mapHeight - Mul(height, KeepVisible))
        maxY == Mul(height, KeepVisible)
        x == IF transform.k <= BaseZoomLimit THEN 0
             ELSE Max(minX, Min(maxX, transform.x))
        y == IF transform.k <= BaseZoomLimit THEN 0
             ELSE IF x = transform.x THEN Max(minY, Min(maxY, transform.y))
             ELSE transform.y
    IN  Scale(Translate(zoomIdentity, x, y), transform.k)

\* constrainTransform(transform), with rect = svg.getBoundingClientRect()
constrainTransform(transform, rect) ==
    LET width == rect.width
        height == rect.height
        mapWidth == Mul(width, transform.k)
        mapHeight == Mul(height, transform.k)
        minX == -(mapWidth - Mul(width, KeepVisible))
        maxX == Mul(width, KeepVisible)
        minY == -(mapHeight - Mul(height, KeepVisible))
        maxY == Mul(height, KeepVisible)
        x == IF transform.k <= BaseZoomLimit THEN 0
             ELSE Max(minX, Min(maxX, transform.x))
        y == IF transform.k <= BaseZoomLimit THEN 0
             ELSE Max(minY, Min(maxY, transform.y))
    IN  Scale(Translate(zoomIdentity, x, y), transform.k)

(***************************************************************************)
(* Features (countries of the topology) and the path generator.            *)
(***************************************************************************)
Null == "null"

\* countries-110m features that stand for the loaded set
Features == {"France", "Russia", "Antarctica"}

\* a feature's box under the projection: centre (relative to the svg's
\* centre) and size, in hundredths of the svg's width, to which the
\* projection's scale (width / 6.5) is proportional
FeatureBox(d) ==
    CASE d = "France"     -> [cx |-> 2,  cy |-> -10, dx |-> 3,  dy |-> 3]
      [] d = "Russia"     -> [cx |-> 20, cy |-> -15, dx |-> 50, dy |-> 10]
      [] d = "Antarctica" -> [cx |-> 0,  cy |-> 20,  dx |-> 70, dy |-> 5]

\* this.path.bounds(d): [[x0, y0], [x1, y1]] in svg pixels; the projection
\* is set from the svg's width and height in setupMap and handleResize
bounds(d, rect) ==
    LET b == FeatureBox(d)
        mx == Div(rect.width, 200) + Mul(rect.width, b.cx)
        my == Div(rect.height, 200) + Mul(rect.width, b.cy)
        hx == Div(Mul(rect.width, b.dx), 200)
        hy == Div(Mul(rect.width, b.dy), 200)
    IN  << <<mx - hx, my - hy>>, <<mx + hx, my + hy>> >>

\* the upper end of zoom.scaleExtent([1, 8]) and of zoomToCountry's Math.min
MaxScale == 800

\* the lower end of zoom.scaleExtent([1, 8])
MinScale == 100

\* the transform zoomToCountry(d) hands to zoom.transform, for a feature
\* whose this.path.bounds(d) is bs
zoomToCountryOf(bs, rect) ==
    LET dx == bs[2][1] - bs[1][1]
        dy == bs[2][2] - bs[1][2]
        x == Div(bs[1][1] + bs[2][1], 200)
        y == Div(bs[1][2] + bs[2][2], 200)
        scale == Min(MaxScale,
                     Div(90, Max(Div(dx, rect.width), Div(dy, rect.height))))
        translate == <<Div(rect.width, 200) - Mul(scale, x),
                       Div(rect.height, 200) - Mul(scale, y)>>
    IN  Scale(Translate(zoomIdentity, translate[1], translate[2]), scale)

zoomToCountryTarget(d, rect) == zoomToCountryOf(bounds(d, rect), rect)

(***************************************************************************)
(* State.                                                                  *)
(***************************************************************************)
VARIABLES
    \* the view
    svgRect,        \* the svg's width and height (attributes and bounding rect)
    svgZoom,        \* the svg's __zoom: d3-zoom's own current transform
    baseTransform,  \* this.baseTransform
    cameraOffset,   \* this.cameraOffset
    mousePos,       \* this.mousePos
    followIntensity,\* this.followIntensity
    smoothness,     \* this.smoothness
    gTransform,     \* the transform attribute of this.g
    transitions,    \* d3 transitions scheduled on the svg, oldest first
    \* the camera-follow loop
    animationId,    \* this.animationId (0: null)
    rafQueue,       \* ids of the frame callbacks requested and not yet run
    lastStop,       \* history: the camera offset when disableCameraFollow
                    \* last cancelled the loop, whether the loop was started
                    \* again since, and whether a tick ran since
    \* the selection
    selectedCountry,\* this.selectedCountry
    selectedClass,  \* the features whose path carries the class "selected"
    infoHidden,     \* whether #info-panel carries the class "hidden"
    \* init() and the data it loads
    pc,             \* the await init() is suspended at, or how it ended
    config,         \* this.config
    cybersecurityData,    \* this.cybersecurityData: name -> record
    complianceCategories, \* this.complianceCategories: status -> category
    countries,      \* this.countries: whether loaded, and its features
    paths,          \* the features with a .country path appended to this.g
    handlers,       \* the groups of event handlers attached so far
    reloadPc,       \* the await a call of reloadConfig() is suspended at
    failedLoads,    \* the fetches that failed so far
    loadedBy,       \* the functions that last assigned the records and the
                    \* categories
    uncaught,       \* the callbacks that threw, and what they were reading
    \* history
    frames,         \* camera-follow ticks and in-between ticks run so far
    requests,       \* transition requests made so far
    latestTarget,   \* the target of the latest transition request, if any
    disturbed,      \* whether a gesture came after that request
    \* probes of the pure functions
    ctArg,          \* the transform handed to constrainTransform
    ctRet,          \* the results of its successive applications
    fnArg,          \* the inputs handed to a lookup function
    fnRet           \* the lookup function called, and what it returned

viewVars == <<svgRect, svgZoom, baseTransform, cameraOffset, mousePos,
              followIntensity, smoothness, gTransform, transitions>>

loopVars == <<animationId, rafQueue, lastStop>>

selVars == <<selectedCountry, selectedClass, infoHidden>>

dataVars == <<pc, config, cybersecurityData, complianceCategories, countries,
              paths, handlers, reloadPc, failedLoads, loadedBy, uncaught>>

histVars == <<frames, requests, latestTarget, disturbed>>

probeVars == <<ctArg, ctRet, fnArg, fnRet>>

vars == <<viewVars, loopVars, selVars, dataVars, histVars, probeVars>>

(***************************************************************************)
(* The state when the constructor returns: setupMap has run on a container *)
(* of size rect and started the camera-follow loop, and init() is          *)
(* suspended at its first await, the fetch of config.json.                 *)
(***************************************************************************)
EmptyMap == [n \in {} |-> Null]

\* this.config = null
NoConfig == [loaded |-> FALSE, settings |-> FALSE, autoZoomOnClick |-> FALSE,
             enableSearch |-> FALSE]

\* this.countries = null
NoCountries == [loaded |-> FALSE, features |-> {}]

AfterConstructor(rect) ==
    /\ svgRect = rect
    /\ svgZoom = zoomIdentity
    /\ baseTransform = zoomIdentity
    /\ cameraOffset = [x |-> 0, y |-> 0]
    /\ mousePos = [x |-> 0, y |-> 0]
    /\ followIntensity = 2
    /\ smoothness = 10
    /\ gTransform = zoomIdentity
    /\ transitions = << >>
    /\ animationId = 1
    /\ rafQueue = {1}
    /\ lastStop = << >>
    /\ selectedCountry = Null
    /\ selectedClass = {}
    /\ infoHidden = TRUE
    /\ pc = "config"
    /\ config = NoConfig
    /\ cybersecurityData = EmptyMap
    /\ complianceCategories = EmptyMap
    /\ countries = NoCountries
    /\ paths = {}
    /\ handlers = {}
    /\ reloadPc = "idle"
    /\ failedLoads = {}
    /\ loadedBy = [records |-> "constructor", categories |-> "constructor"]
    /\ uncaught = {}
    /\ frames = 0
    /\ requests = 0
    /\ latestTarget = << >>
    /\ disturbed = FALSE

(***************************************************************************)
(* The camera-follow tick and the rendered transform.                      *)
(***************************************************************************)
\* A mutant of updateCameraPosition: the intensity is not forced to 0 at
\* base zoom.
updateCameraPositionAlways(rect, mouse, base, offset, intensity, smooth) ==
    LET centerX == Div(rect.width, 200)
        centerY == Div(rect.height, 200)
        normalizedX == Div(mouse.x - centerX, centerX)
        normalizedY == Div(mouse.y - centerY, centerY)
        targetOffsetX == Mul(Mul(-normalizedX, intensity), rect.width)
        targetOffsetY == Mul(Mul(-normalizedY, intensity), rect.height)
    IN  [x |-> offset.x + Mul(targetOffsetX - offset.x, smooth),
         y |-> offset.y + Mul(targetOffsetY - offset.y, smooth)]

\* A mutant of targetOffset: the normalized pointer position is clamped
\* to [-1, 1].
targetOffsetClamped(rect, mouse, base, intensity) ==
    LET centerX == Div(rect.width, 200)
        centerY == Div(rect.height, 200)
        normalizedX == Max(-100, Min(100, Div(mouse.x - centerX, centerX)))
        normalizedY == Max(-100, Min(100, Div(mouse.y - centerY, centerY)))
        effectiveIntensity == IF base.k <= BaseZoomLimit THEN 0 ELSE intensity
    IN  [x |-> IF rect.width = 0 THEN NaN
               ELSE Mul(Mul(-normalizedX, effectiveIntensity), rect.width),
         y |-> IF rect.height = 0 THEN NaN
               ELSE Mul(Mul(-normalizedY, effectiveIntensity), rect.height)]

\* A mutant of targetOffset: the target is scaled by the half extent.
targetOffsetHalf(rect, mouse, base, intensity) ==
    LET centerX == Div(rect.width, 200)
        centerY == Div(rect.height, 200)
        normalizedX == Div(mouse.x - centerX, centerX)
        normalizedY == Div(mouse.y - centerY, centerY)
        effectiveIntensity == IF base.k <= BaseZoomLimit THEN 0 ELSE intensity
    IN  [x |-> IF rect.width = 0 THEN NaN
               ELSE Mul(Mul(-normalizedX, effectiveIntensity), centerX),
         y |-> IF rect.height = 0 THEN NaN
               ELSE Mul(Mul(-normalizedY, effectiveIntensity), centerY)]

\* targetOffsetX and targetOffsetY of updateCameraPosition().  On a rect of
\* width 0 centerX is 0 and normalizedX is mouse.x / 0, an infinity or NaN,
\* and its product with the intensity and the width, 0, is NaN; the same
\* for the height.
targetOffset(rect, mouse, base, intensity) ==
    LET centerX == Div(rect.width, 200)
        centerY == Div(rect.height, 200)
        normalizedX == Div(mouse.x - centerX, centerX)
        normalizedY == Div(mouse.y - centerY, centerY)
        effectiveIntensity == IF base.k <= BaseZoomLimit THEN 0 ELSE intensity
    IN  [x |-> IF rect.width = 0 THEN NaN
               ELSE Mul(Mul(-normalizedX, effectiveIntensity), rect.width),
         y |-> IF rect.height = 0 THEN NaN
               ELSE Mul(Mul(-normalizedY, effectiveIntensity), rect.height)]

\* A mutant of smoothed: the step is added twice.
smoothedTwice(offset, target, smooth) ==
    [x |-> IF target.x = NaN \/ offset.x = NaN THEN NaN
           ELSE offset.x + 2 * Mul(target.x - offset.x, smooth),
     y |-> IF target.y = NaN \/ offset.y = NaN THEN NaN
           ELSE offset.y + 2 * Mul(target.y - offset.y, smooth)]

\* the smooth interpolation of updateCameraPosition() towards target
smoothed(offset, target, smooth) ==
    [x |-> IF target.x = NaN \/ offset.x = NaN THEN NaN
           ELSE offset.x + Mul(target.x - offset.x, smooth),
     y |-> IF target.y = NaN \/ offset.y = NaN THEN NaN
           ELSE offset.y + Mul(target.y - offset.y, smooth)]

\* the camera offset updateCameraPosition() leaves
updateCameraPosition(rect, mouse, base, offset, intensity, smooth) ==
    smoothed(offset, targetOffset(rect, mouse, base, intensity), smooth)

\* the transform applyCameraTransform() writes to this.g
applyCameraTransform(base, offset, rect) ==
    constrainTransform(
        Translate(base,
                  IF offset.x = NaN THEN NaN ELSE Div(offset.x, base.k),
                  IF offset.y = NaN THEN NaN ELSE Div(offset.y, base.k)),
        rect)

\* the "zoom" handler of setupMap, run on event.transform = t, which d3-zoom
\* has stored as the svg's __zoom
ZoomEvent(t) ==
    /\ svgZoom' = t
    /\ baseTransform' = constrainTransform(t, svgRect)
    /\ gTransform' = applyCameraTransform(baseTransform', cameraOffset, svgRect)

(***************************************************************************)
(* d3 transitions on the svg.  A transition is created scheduled; it       *)
(* starts on a later timer flush, oldest first, and its start interrupts   *)
(* the running transition of the svg; a gesture interrupts the running     *)
(* transition and leaves the scheduled ones.  Each tick of a running       *)
(* transition hands a transform to the zoom handler: the transform it      *)
(* started from on its first tick, its target on its last, and in between  *)
(* one frame that stands for the tween, the midpoint of the two.           *)
(***************************************************************************)
Scheduled(target) == [target |-> target, state |-> "scheduled"]

Running == {i \in 1..Len(transitions) : transitions[i].state = "running"}

Pending == {i \in 1..Len(transitions) : transitions[i].state = "scheduled"}

\* the transitions an interrupt of the svg leaves
Interrupted(ts) == SelectSeq(ts, LAMBDA tr : tr.state = "scheduled")

Midpoint(a, b) ==
    [k |-> TruncDiv(a.k + b.k, 2), x |-> TruncDiv(a.x + b.x, 2),
     y |-> TruncDiv(a.y + b.y, 2)]

\* svg.transition().duration(750).call(zoom.transform, target)
RequestTransition(target) ==
    /\ requests < MaxTransitions
    /\ requests' = requests + 1
    /\ transitions' = Append(transitions, Scheduled(target))
    /\ latestTarget' = <<target>>
    /\ disturbed' = FALSE

\* A mutant of StartedTransitions: the running transition is not interrupted.
StartedTransitionsKeepOld(ts, i, from) ==
    [j \in 1..Len(ts) |->
        IF j = i THEN [target |-> ts[i].target, state |-> "running",
                       from |-> from]
        ELSE ts[j]]

\* the svg's transitions once transition i has started: the running one is
\* interrupted, the older scheduled ones are cancelled
StartedTransitions(ts, i, from) ==
    << [target |-> ts[i].target, state |-> "running", from |-> from] >>
        \o SubSeq(ts, i + 1, Len(ts))

TransitionStart ==
    /\ Pending # {}
    /\ LET i == CHOOSE j \in Pending : \A m \in Pending : j <= m
       IN  transitions' = StartedTransitions(transitions, i, svgZoom)
    /\ ZoomEvent(svgZoom)
    /\ UNCHANGED <<svgRect, cameraOffset, mousePos, followIntensity, smoothness>>
    /\ UNCHANGED <<loopVars, selVars, dataVars, histVars, probeVars>>

TransitionFrame ==
    /\ frames < MaxFrames
    /\ frames' = frames + 1
    /\ \E i \in Running :
          ZoomEvent(Midpoint(transitions[i].from, transitions[i].target))
    /\ UNCHANGED <<svgRect, cameraOffset, mousePos, followIntensity, smoothness,
                   transitions>>
    /\ UNCHANGED <<loopVars, selVars, dataVars, requests, latestTarget,
                   disturbed, probeVars>>

TransitionEnd ==
    /\ \E i \in Running :
          /\ ZoomEvent(transitions[i].target)
          /\ transitions' = [j \in 1..(Len(transitions) - 1) |->
                                transitions[IF j < i THEN j ELSE j + 1]]
    /\ UNCHANGED <<svgRect, cameraOffset, mousePos, followIntensity, smoothness>>
    /\ UNCHANGED <<loopVars, selVars, dataVars, histVars, probeVars>>

(***************************************************************************)
(* Gestures, pointer and resize.                                           *)
(***************************************************************************)
\* a wheel gesture: d3-zoom clamps the new scale to scaleExtent and moves
\* the translation so that the pointer's point stays put
WheelZoom(k, x, y) ==
    /\ MinScale <= k /\ k <= MaxScale
    /\ ZoomEvent([k |-> k, x |-> x, y |-> y])
    /\ transitions' = Interrupted(transitions)
    /\ disturbed' = (latestTarget # << >>)
    /\ UNCHANGED <<svgRect, cameraOffset, mousePos, followIntensity, smoothness>>
    /\ UNCHANGED <<loopVars, selVars, dataVars, frames, requests, latestTarget,
                   probeVars>>

\* a drag gesture: the translation changes, the scale stays
DragPan(x, y) ==
    /\ ZoomEvent([k |-> svgZoom.k, x |-> x, y |-> y])
    /\ transitions' = Interrupted(transitions)
    /\ disturbed' = (latestTarget # << >>)
    /\ UNCHANGED <<svgRect, cameraOffset, mousePos, followIntensity, smoothness>>
    /\ UNCHANGED <<loopVars, selVars, dataVars, frames, requests, latestTarget,
                   probeVars>>

\* A mutant of MouseMove: the handler also recentres the camera offset.
MouseMoveRecentre(p) ==
    /\ mousePos' = p
    /\ cameraOffset' = [x |-> 0, y |-> 0]
    /\ UNCHANGED <<svgRect, svgZoom, baseTransform, followIntensity,
                   smoothness, gTransform, transitions>>
    /\ UNCHANGED <<loopVars, selVars, dataVars, histVars, probeVars>>

\* the "mousemove" handler of setupCameraFollow
MouseMove(p) ==
    /\ mousePos' = p
    /\ UNCHANGED <<svgRect, svgZoom, baseTransform, cameraOffset,
                   followIntensity, smoothness, gTransform, transitions>>
    /\ UNCHANGED <<loopVars, selVars, dataVars, histVars, probeVars>>

\* handleResize(), the window's "resize" listener, on a container of size r
handleResize(r) ==
    /\ "listeners" \in handlers
    /\ svgRect' = r
    /\ UNCHANGED <<svgZoom, baseTransform, cameraOffset, mousePos,
                   followIntensity, smoothness, gTransform, transitions>>
    /\ UNCHANGED <<loopVars, selVars, dataVars, histVars, probeVars>>

(***************************************************************************)
(* The camera-follow loop: requestAnimationFrame and its callbacks.        *)
(***************************************************************************)
\* the id requestAnimationFrame returns: one no pending callback has
FreshId(q) ==
    CHOOSE i \in 1..(Cardinality(q) + 1) :
        i \notin q /\ \A j \in 1..(i - 1) : j \in q

\* the callback animate() of startCameraFollow, requested under id
Frame(id) ==
    /\ id \in rafQueue
    /\ frames < MaxFrames
    /\ frames' = frames + 1
    /\ LET next == FreshId(rafQueue \ {id})
       IN  /\ cameraOffset' = updateCameraPosition(svgRect, mousePos,
                                                   baseTransform, cameraOffset,
                                                   followIntensity, smoothness)
           /\ gTransform' = applyCameraTransform(baseTransform, cameraOffset',
                                                 svgRect)
           /\ rafQueue' = (rafQueue \ {id}) \cup {next}
           /\ animationId' = next
    /\ lastStop' = IF lastStop = << >> THEN lastStop
                   ELSE <<[lastStop[1] EXCEPT !.ticked = TRUE]>>
    /\ UNCHANGED <<svgRect, svgZoom, baseTransform, mousePos, followIntensity,
                   smoothness, transitions>>
    /\ UNCHANGED <<selVars, dataVars, requests, latestTarget, disturbed,
                   probeVars>>

\* the loop started by startCameraFollow()
Started ==
    /\ Cardinality(rafQueue) < MaxLoops
    /\ rafQueue' = rafQueue \cup {FreshId(rafQueue)}
    /\ animationId' = FreshId(rafQueue)
    /\ lastStop' = IF lastStop = << >> THEN lastStop
                   ELSE <<[lastStop[1] EXCEPT !.restarted = TRUE]>>

startCameraFollow ==
    /\ Started
    /\ UNCHANGED <<viewVars, selVars, dataVars, histVars, probeVars>>

disableCameraFollow ==
    /\ IF animationId # 0
       THEN /\ rafQueue' = rafQueue \ {animationId}
            /\ animationId' = 0
            /\ lastStop' = <<[offset |-> cameraOffset, restarted |-> FALSE,
                              ticked |-> FALSE]>>
       ELSE UNCHANGED loopVars
    /\ UNCHANGED <<viewVars, selVars, dataVars, histVars, probeVars>>

\* A mutant of enableCameraFollow: the restart clears the camera offset.
enableCameraFollowReset ==
    IF animationId = 0
    THEN /\ Started
         /\ cameraOffset' = [x |-> 0, y |-> 0]
         /\ UNCHANGED <<svgRect, svgZoom, baseTransform, mousePos,
                        followIntensity, smoothness, gTransform, transitions>>
         /\ UNCHANGED <<selVars, dataVars, histVars, probeVars>>
    ELSE UNCHANGED vars

enableCameraFollow ==
    IF animationId = 0
    THEN startCameraFollow
    ELSE UNCHANGED vars

(***************************************************************************)
(* Names, records and colors.                                              *)
(***************************************************************************)
\* d.properties: the topology names each feature in "name" only; "" stands
\* for a property that is absent or empty
Properties(d) ==
    [NAME |-> "", NAME_EN |-> "", NAME_LONG |-> "", ADMIN |-> "",
     sovereignt |-> "", name |-> d]

\* A mutant of getCountryNameOf: ADMIN is tried before NAME_LONG.
getCountryNameAdminFirst(p) ==
    IF p.NAME # "" THEN p.NAME
    ELSE IF p.NAME_EN # "" THEN p.NAME_EN
    ELSE IF p.ADMIN # "" THEN p.ADMIN
    ELSE IF p.NAME_LONG # "" THEN p.NAME_LONG
    ELSE IF p.sovereignt # "" THEN p.sovereignt
    ELSE IF p.name # "" THEN p.name
    ELSE "Unknown"

\* getCountryName on a feature whose properties are p
getCountryNameOf(p) ==
    IF p.NAME # "" THEN p.NAME
    ELSE IF p.NAME_EN # "" THEN p.NAME_EN
    ELSE IF p.NAME_LONG # "" THEN p.NAME_LONG
    ELSE IF p.ADMIN # "" THEN p.ADMIN
    ELSE IF p.sovereignt # "" THEN p.sovereignt
    ELSE IF p.name # "" THEN p.name
    ELSE "Unknown"

getCountryName(d) == getCountryNameOf(Properties(d))

\* the alias table of getCybersecurityData
variations ==
    [n \in {"United States of America", "USA", "US"} |-> "United States"] @@
    [n \in {"UK", "Great Britain", "Britain"} |-> "United Kingdom"] @@
    [n \in {"Korea, Republic of", "Republic of Korea"} |-> "South Korea"] @@
    [n \in {"Korea, Democratic People's Republic of"} |-> "North Korea"] @@
    [n \in {"Russian Federation"} |-> "Russia"] @@
    [n \in {"Iran, Islamic Republic of"} |-> "Iran"] @@
    [n \in {"Syrian Arab Republic"} |-> "Syria"] @@
    [n \in {"Venezuela, Bolivarian Republic of"} |-> "Venezuela"] @@
    [n \in {"Bolivia, Plurinational State of"} |-> "Bolivia"] @@
    [n \in {"Tanzania, United Republic of"} |-> "Tanzania"]

\* no record: getCybersecurityData returns null
NoRecord == [complianceStatus |-> Null]

\* property names every plain object inherits from Object.prototype
ObjectPrototype ==
    {"constructor", "toString", "toLocaleString", "valueOf", "hasOwnProperty",
     "isPrototypeOf", "propertyIsEnumerable", "__proto__"}

\* what Object.prototype holds under name: a function or object, which is
\* truthy and has no complianceStatus
PrototypeMember(name) == [complianceStatus |-> "", builtin |-> name]

\* whether obj[name] is truthy, for a plain object obj whose own values are
\* records
Has(obj, name) == name \in DOMAIN obj \/ name \in ObjectPrototype

\* obj[name] when it is truthy
Get(obj, name) ==
    IF name \in DOMAIN obj THEN obj[name] ELSE PrototypeMember(name)

\* the alias step is reached only by names that are not inherited, for
\* which variations[countryName] is an own entry or undefined
getCybersecurityData(countryName, data) ==
    IF Has(data, countryName) THEN Get(data, countryName)
    ELSE IF countryName \in DOMAIN variations
            /\ Has(data, variations[countryName])
         THEN Get(data, variations[countryName])
         ELSE NoRecord

TypeError == "TypeError"

\* A mutant of getCountryColor: without a record and without an "unknown"
\* category it reads the color of undefined.
getCountryColorNoDefault(countryName, data, categories) ==
    LET record == getCybersecurityData(countryName, data)
    IN  IF "unknown" \in DOMAIN categories
        THEN IF record # NoRecord /\ record.complianceStatus # ""
                /\ record.complianceStatus \in DOMAIN categories
             THEN categories[record.complianceStatus].color
             ELSE categories["unknown"].color
        ELSE IF record # NoRecord /\ record.complianceStatus # ""
                /\ record.complianceStatus \in DOMAIN categories
             THEN categories[record.complianceStatus].color
             ELSE TypeError

\* getCountryColor(countryName): a color, or TypeError when it throws
getCountryColor(countryName, data, categories) ==
    LET record == getCybersecurityData(countryName, data)
    IN  IF record # NoRecord /\ record.complianceStatus # ""
        THEN IF record.complianceStatus \in DOMAIN categories
             THEN categories[record.complianceStatus].color
             ELSE IF "unknown" \in DOMAIN categories
                  THEN categories["unknown"].color
                  ELSE TypeError
        ELSE IF "unknown" \in DOMAIN categories
             THEN categories["unknown"].color
             ELSE "#e0e0e0"

(***************************************************************************)
(* The selection.                                                          *)
(***************************************************************************)
\* the part onCountryClick and selectCountryByData share: d becomes the
\* selected country, the paths in marked carry "selected", the info panel
\* shows, and zoomToCountry(d) runs if config.settings.autoZoomOnClick
\* (the read throws, after the selection is made, if config has no settings)
Select(d, marked) ==
    /\ selectedClass' = marked
    /\ selectedCountry' = d
    /\ infoHidden' = FALSE
    /\ IF config.settings /\ config.autoZoomOnClick
       THEN RequestTransition(zoomToCountryTarget(d, svgRect))
       ELSE UNCHANGED <<transitions, requests, latestTarget, disturbed>>
    /\ UNCHANGED <<svgRect, svgZoom, baseTransform, cameraOffset, mousePos,
                   followIntensity, smoothness, gTransform>>
    /\ UNCHANGED <<loopVars, dataVars, frames, probeVars>>

\* the "click" handler drawCountries attaches to the path of d
onCountryClick(d) ==
    /\ "country" \in handlers
    /\ d \in paths
    /\ Select(d, {d})

\* the click on a search result that stands for feature d
selectCountryByData(d) ==
    /\ "search" \in handlers
    /\ countries.loaded
    /\ d \in countries.features
    /\ Select(d, {d} \cap paths)

\* A mutant of Deselected: the class "selected" is left on the paths.
DeselectedKeepClass ==
    /\ selectedClass' = selectedClass
    /\ selectedCountry' = Null
    /\ infoHidden' = TRUE

\* what deselectCountry() and the close button's handler both do
Deselected ==
    /\ selectedClass' = {}
    /\ selectedCountry' = Null
    /\ infoHidden' = TRUE

\* the svg's "click" handler, on a click on the background
deselectCountry ==
    /\ Deselected
    /\ UNCHANGED <<viewVars, loopVars, dataVars, histVars, probeVars>>

\* the "click" listener of #close-info
closeInfo ==
    /\ "listeners" \in handlers
    /\ Deselected
    /\ UNCHANGED <<viewVars, loopVars, dataVars, histVars, probeVars>>

\* resetZoom(), the "click" listener of #reset-zoom
resetZoom ==
    /\ "listeners" \in handlers
    /\ RequestTransition(zoomIdentity)
    /\ Deselected
    /\ UNCHANGED <<svgRect, svgZoom, baseTransform, cameraOffset, mousePos,
                   followIntensity, smoothness, gTransform>>
    /\ UNCHANGED <<loopVars, dataVars, frames, probeVars>>

(***************************************************************************)
(* Spec: the interactive map once init() has finished on a successful      *)
(* load, with the pointer at the svg's corner: gestures, camera-follow     *)
(* ticks, resizes, clicks on countries, resets and the transitions they    *)
(* request.                                                                *)
(***************************************************************************)
\* a 1000 x 500 px container, and a 1000 x 100 px one
ViewRects == {[width |-> 100000, height |-> 50000],
              [width |-> 100000, height |-> 10000]}

GestureScales == {100, 400}

GesturePansX == {30000}

GesturePansY == {30000}

\* a drag far to the left
DragPansX == {-500000}

\* the svg's top left corner, and the centre of the 1000 x 500 px svg
MousePoints == {[x |-> 0, y |-> 0], [x |-> 50000, y |-> 25000]}

\* the settings loadConfig falls back to
DefaultConfig == [loaded |-> TRUE, settings |-> TRUE, autoZoomOnClick |-> TRUE,
                  enableSearch |-> TRUE]

Category(color) == [color |-> color]

\* the categories loadConfig falls back to
DefaultCategories == [s \in {"unknown"} |-> Category("#9E9E9E")]

\* init() has finished: the topology and the sheet are loaded, the
\* countries drawn and every handler attached
Loaded(rect) ==
    /\ svgRect = rect
    /\ svgZoom = zoomIdentity
    /\ baseTransform = zoomIdentity
    /\ cameraOffset = [x |-> 0, y |-> 0]
    /\ mousePos = [x |-> 0, y |-> 0]
    /\ followIntensity = 2
    /\ smoothness = 10
    /\ gTransform = zoomIdentity
    /\ transitions = << >>
    /\ animationId = 1
    /\ rafQueue = {1}
    /\ lastStop = << >>
    /\ selectedCountry = Null
    /\ selectedClass = {}
    /\ infoHidden = TRUE
    /\ pc = "done"
    /\ config = DefaultConfig
    /\ cybersecurityData = EmptyMap
    /\ complianceCategories = DefaultCategories
    /\ countries = [loaded |-> TRUE, features |-> Features]
    /\ paths = Features \ {"Antarctica"}
    /\ handlers = {"country", "listeners", "search"}
    /\ reloadPc = "idle"
    /\ failedLoads = {}
    /\ loadedBy = [records |-> "loadGoogleSheetData",
                   categories |-> "loadConfig"]
    /\ uncaught = {}
    /\ frames = 0
    /\ requests = 0
    /\ latestTarget = << >>
    /\ disturbed = FALSE

\* no lookup function is probed
NoLookup ==
    /\ fnArg = [name |-> ""]
    /\ fnRet = [called |-> "none"]

NoProbe ==
    /\ ctArg = zoomIdentity
    /\ ctRet = << >>
    /\ NoLookup

Init ==
    /\ \E r \in ViewRects : Loaded(r)
    /\ NoProbe

Next ==
    \/ \E id \in rafQueue : Frame(id)
    \/ \E k \in GestureScales, x \in GesturePansX, y \in GesturePansY :
          WheelZoom(k, x, y)
    \/ \E x \in DragPansX, y \in GesturePansY : DragPan(x, y)
    \/ \E r \in ViewRects : handleResize(r)
    \/ \E d \in Features : onCountryClick(d)
    \/ resetZoom
    \/ TransitionStart
    \/ TransitionFrame
    \/ TransitionEnd

Spec == Init /\ [][Next]_vars

\* SpecLive: Spec on an svg that keeps the size it was created with, under
\* the scheduling d3's timer gives a transition: a scheduled one starts on
\* the next timer flush, and a running one that is not interrupted makes its
\* last tick once its 750 ms have elapsed
NextLive ==
    \/ \E id \in rafQueue : Frame(id)
    \/ \E k \in GestureScales, x \in GesturePansX, y \in GesturePansY :
          WheelZoom(k, x, y)
    \/ \E x \in DragPansX, y \in GesturePansY : DragPan(x, y)
    \/ \E d \in Features : onCountryClick(d)
    \/ resetZoom
    \/ TransitionStart
    \/ TransitionFrame
    \/ TransitionEnd

SpecLive ==
    /\ Init
    /\ [][NextLive]_vars
    /\ WF_vars(TransitionStart)
    /\ WF_vars(TransitionEnd)

(***************************************************************************)
(* C5: in every reachable state the base transform's scale lies in         *)
(* [minScale, maxScale] = [1, 8].                                          *)
(***************************************************************************)
C5_ScaleInRange ==
    MinScale <= baseTransform.k /\ baseTransform.k <= MaxScale

(***************************************************************************)
(* C6: the transform of the rendering group always equals                  *)
(* constrainTransform(base o translate(cameraOffset / base.scale)) for the *)
(* current base transform, camera offset and svg size.                     *)
(***************************************************************************)
C6_RenderedIsConstrained ==
    gTransform = applyCameraTransform(baseTransform, cameraOffset, svgRect)

(***************************************************************************)
(* C9: a transition that starts supersedes the one in flight: at most one  *)
(* transition of the svg is running, it is the oldest one alive (none      *)
(* waits behind another), and once no transition is left and no gesture    *)
(* came after the latest request, d3's transform is that request's target  *)
(* and the base transform is that target constrained for the svg.          *)
(***************************************************************************)
C9_Supersede ==
    /\ Cardinality(Running) <= 1
    /\ \A i \in Running : i = 1
    /\ (transitions = << >> /\ latestTarget # << >> /\ ~disturbed) =>
          /\ svgZoom = latestTarget[1]
          /\ \E r \in ViewRects :
                baseTransform = constrainTransform(latestTarget[1], r)

\* a reset is running that started while the zoom to France was halfway,
\* and the zoom to France is gone
C9_Witness ==
    /\ Len(transitions) = 1
    /\ transitions[1].state = "running"
    /\ transitions[1].target = zoomIdentity
    /\ transitions[1].from.k = 450
    /\ requests = 2

(***************************************************************************)
(* C10: resetZoom clears the selection in the same step, whatever the      *)
(* base transform, camera offset and selection; once its transition has    *)
(* ended with no gesture or request after it, the base and the rendered    *)
(* transform are the identity; and under SpecLive a reset that is not      *)
(* followed by a gesture or a zoom to a country leads to that state.       *)
(***************************************************************************)
ResetLatest == latestTarget = <<zoomIdentity>> /\ ~disturbed

ResetDone == baseTransform = zoomIdentity /\ gTransform = zoomIdentity

C10_Reset ==
    /\ [][resetZoom => (selectedCountry' = Null /\ selectedClass' = {}
                        /\ infoHidden')]_vars
    /\ []((ResetLatest /\ transitions = << >>) => ResetDone)
    /\ (ResetLatest ~> (ResetDone \/ ~ResetLatest))

\* a reset, requested after a zoom to a country, has ended with the camera
\* offset away from zero
C10_Witness ==
    /\ ResetLatest
    /\ transitions = << >>
    /\ requests = 2
    /\ selectedCountry = Null
    /\ cameraOffset.x # 0
    /\ ResetDone

(***************************************************************************)
(* SpecSelect: the selection of the loaded map: clicks on countries and on *)
(* search results, clicks on the background and on the close button,       *)
(* resets, and the transitions they request.                               *)
(***************************************************************************)
NextSelect ==
    \/ \E d \in Features : onCountryClick(d)
    \/ \E d \in Features : selectCountryByData(d)
    \/ deselectCountry
    \/ closeInfo
    \/ resetZoom
    \/ TransitionStart
    \/ TransitionEnd

SpecSelect == Init /\ [][NextSelect]_vars

(***************************************************************************)
(* C3: at most one feature is marked selected; after a selection of a      *)
(* feature of the loaded set, by a click or by a search result, exactly    *)
(* that feature is marked; after a deselect, a close or a reset none is.   *)
(***************************************************************************)
C3_ExactlyTheSelected ==
    /\ Cardinality(selectedClass) <= 1
    /\ selectedCountry # Null => selectedClass = {selectedCountry}
    /\ selectedCountry = Null => selectedClass = {}

\* France was selected, then Russia: Russia alone is marked
C3_Witness ==
    /\ requests = 2
    /\ selectedCountry = "Russia"
    /\ selectedClass = {"Russia"}
    /\ \E i \in 1..Len(transitions) :
          transitions[i].target = zoomToCountryTarget("France", svgRect)

(***************************************************************************)
(* SpecLoad: init() from the constructor's return to its end: the fetches  *)
(* of config.json, of the cybersecurity data, of the topology and of the   *)
(* sheet, each succeeding with one of a few contents or failing.           *)
(***************************************************************************)
\* config.json: the default settings, settings that switch zoom-on-click
\* and search off, and a file without "settings"
ConfigFiles ==
    {DefaultConfig,
     [loaded |-> TRUE, settings |-> TRUE, autoZoomOnClick |-> FALSE,
      enableSearch |-> FALSE],
     [loaded |-> TRUE, settings |-> FALSE, autoZoomOnClick |-> FALSE,
      enableSearch |-> FALSE]}

Record(status) == [complianceStatus |-> status]

Categories(statuses) ==
    [st \in statuses |->
        Category(IF st = "unknown" THEN "#9E9E9E" ELSE "#4CAF50")]

\* the data file's "countries" (absent: {}) and "complianceCategories"
\* (absent: {}; with and without an "unknown" entry)
DataFiles ==
    [countries : {EmptyMap, [n \in {"France"} |-> Record("compliant")]},
     complianceCategories : {EmptyMap, Categories({"compliant"}),
                             Categories({"compliant", "unknown"})}]

\* the sheet's rows by Country: none, a status with a category, a status
\* without one, and an empty status cell
SheetRows ==
    {EmptyMap,
     [n \in {"France"} |-> Record("compliant")],
     [n \in {"France"} |-> Record("pending")],
     [n \in {"Russia"} |-> Record("")]}

\* the catch block of loadConfig
loadConfigCatch ==
    /\ config' = DefaultConfig
    /\ cybersecurityData' = EmptyMap
    /\ complianceCategories' = DefaultCategories

\* what init() runs once loadData has returned: setupEventListeners, and
\* setupSearch, which throws if config has no settings and attaches nothing
\* if the search is off; drawn tells whether drawCountries returned
FinishInit(drawn) ==
    /\ handlers' = (IF drawn THEN {"country"} ELSE {})
                   \cup {"listeners"}
                   \cup (IF config.settings /\ config.enableSearch
                         THEN {"search"} ELSE {})
    /\ pc' = IF config.settings THEN "done" ELSE "failed"

\* the records and the categories were both assigned by the function by
BothLoadedBy(by) == loadedBy' = [records |-> by, categories |-> by]

\* loadConfig: the fetch of config.json settles
FetchConfig ==
    /\ pc = "config"
    /\ \/ /\ \E c \in ConfigFiles : config' = c
          /\ pc' = "data"
          /\ UNCHANGED <<cybersecurityData, complianceCategories, loadedBy,
                         failedLoads>>
       \/ /\ loadConfigCatch
          /\ BothLoadedBy("loadConfig")
          /\ failedLoads' = failedLoads \cup {"config"}
          /\ pc' = "world"
    /\ UNCHANGED <<countries, paths, handlers, reloadPc, uncaught>>
    /\ UNCHANGED <<viewVars, loopVars, selVars, histVars, probeVars>>

\* loadConfig: the fetch of the cybersecurity data settles
FetchData ==
    /\ pc = "data"
    /\ \/ /\ \E f \in DataFiles :
                /\ cybersecurityData' = f.countries
                /\ complianceCategories' = f.complianceCategories
          /\ UNCHANGED <<config, failedLoads>>
       \/ /\ loadConfigCatch
          /\ failedLoads' = failedLoads \cup {"data"}
    /\ BothLoadedBy("loadConfig")
    /\ pc' = "world"
    /\ UNCHANGED <<countries, paths, handlers, reloadPc, uncaught>>
    /\ UNCHANGED <<viewVars, loopVars, selVars, histVars, probeVars>>

\* loadData: the fetch of the topology settles
FetchWorld ==
    /\ pc = "world"
    /\ \/ /\ countries' = [loaded |-> TRUE, features |-> Features]
          /\ pc' = "sheet"
          /\ UNCHANGED <<handlers, failedLoads>>
       \/ /\ UNCHANGED countries
          /\ failedLoads' = failedLoads \cup {"topology"}
          /\ FinishInit(FALSE)
    /\ UNCHANGED <<config, cybersecurityData, complianceCategories, paths,
                   reloadPc, loadedBy, uncaught>>
    /\ UNCHANGED <<viewVars, loopVars, selVars, histVars, probeVars>>

\* the features drawCountries appends a path for
Drawn == {d \in Features : getCountryName(d) # "Antarctica"}

\* loadData: the fetch of the sheet settles; on success the rows replace
\* the records and drawCountries runs, which leaves the paths without
\* handlers if a fill throws
FetchSheet ==
    /\ pc = "sheet"
    /\ \/ \E rows \in SheetRows :
             /\ cybersecurityData' = rows
             /\ loadedBy' = [loadedBy EXCEPT !.records = "loadGoogleSheetData"]
             /\ paths' = Drawn
             /\ FinishInit(\A d \in Drawn :
                   getCountryColor(getCountryName(d), rows,
                                   complianceCategories) # TypeError)
             /\ UNCHANGED failedLoads
       \/ /\ UNCHANGED <<cybersecurityData, loadedBy, paths>>
          /\ failedLoads' = failedLoads \cup {"sheet"}
          /\ FinishInit(FALSE)
    /\ UNCHANGED <<config, complianceCategories, countries, reloadPc, uncaught>>
    /\ UNCHANGED <<viewVars, loopVars, selVars, histVars, probeVars>>

InitLoad ==
    /\ \E r \in ViewRects : AfterConstructor(r)
    /\ NoProbe

NextLoad ==
    \/ FetchConfig
    \/ FetchData
    \/ FetchWorld
    \/ FetchSheet

SpecLoad == InitLoad /\ [][NextLoad]_vars

(***************************************************************************)
(* C4: getCountryColor does not throw for a drawn country whose record     *)
(* has a status: without a category for the status it returns the          *)
(* "unknown" category's color, and without that one too the hardcoded      *)
(* default, whatever records and categories the load produced.             *)
(***************************************************************************)
C4_ColorNeverThrows ==
    \A d \in paths :
        LET record == getCybersecurityData(getCountryName(d), cybersecurityData)
            color == getCountryColor(getCountryName(d), cybersecurityData,
                                     complianceCategories)
        IN  (record # NoRecord /\ record.complianceStatus # "") =>
               /\ color # TypeError
               /\ record.complianceStatus \notin DOMAIN complianceCategories =>
                     color = IF "unknown" \in DOMAIN complianceCategories
                             THEN complianceCategories["unknown"].color
                             ELSE "#e0e0e0"

(***************************************************************************)
(* C17: once init() has finished, if any of its fetches failed (of         *)
(* config.json, of the cybersecurity data, of the topology or of the       *)
(* sheet), the records are empty and the categories are the single         *)
(* "unknown" entry with the default color.                                 *)
(***************************************************************************)
C17_FailedLoadFallsBack ==
    (pc \in {"done", "failed"} /\ failedLoads # {}) =>
        /\ cybersecurityData = EmptyMap
        /\ complianceCategories = DefaultCategories

(***************************************************************************)
(* SpecLoop: the camera-follow loop and what drives it: calls of           *)
(* startCameraFollow, enableCameraFollow and disableCameraFollow, frame    *)
(* callbacks, pointer moves and wheel gestures.                            *)
(***************************************************************************)
NextLoop ==
    \/ startCameraFollow
    \/ enableCameraFollow
    \/ disableCameraFollow
    \/ \E id \in rafQueue : Frame(id)
    \/ \E p \in MousePoints : MouseMove(p)
    \/ \E k \in GestureScales, x \in GesturePansX, y \in GesturePansY :
          WheelZoom(k, x, y)

SpecLoop == Init /\ [][NextLoop]_vars

(***************************************************************************)
(* C7: at most one frame callback of the loop is scheduled at any time,    *)
(* and once disableCameraFollow has run none is.                           *)
(***************************************************************************)
C7_OneLoop ==
    /\ Cardinality(rafQueue) <= 1
    /\ animationId = 0 => rafQueue = {}

(***************************************************************************)
(* C8: from disableCameraFollow until the loop is started again, no frame  *)
(* callback runs and the camera offset does not change.                    *)
(***************************************************************************)
C8_NoTickWhenStopped ==
    [][animationId = 0 =>
          /\ ~(\E id \in rafQueue : Frame(id))
          /\ cameraOffset' = cameraOffset]_vars

(***************************************************************************)
(* SpecClamp: constrainTransform as a pure function of a transform and the *)
(* svg's rect.  Init draws the transform and the rect; Constrain applies   *)
(* the function to the argument, then to its own result.                   *)
(***************************************************************************)
ProbeScales == {50, 100, 105, 106, 250, 800, 900}

ProbePans == {i * 5000 : i \in (-MaxPan)..MaxPan}

ProbeRects ==
    {[width |-> w * 10000, height |-> h * 10000] : w, h \in 0..MaxRect}

InitClamp ==
    /\ \E r \in ProbeRects : AfterConstructor(r)
    /\ ctArg \in [k : ProbeScales, x : ProbePans, y : ProbePans]
    /\ ctRet = << >>
    /\ NoLookup

Constrain ==
    /\ Len(ctRet) < 2
    /\ ctRet' = Append(ctRet,
                       constrainTransform(IF ctRet = << >> THEN ctArg
                                          ELSE ctRet[Len(ctRet)], svgRect))
    /\ UNCHANGED <<viewVars, loopVars, selVars, dataVars, histVars, ctArg,
                   fnArg, fnRet>>

NextClamp == Constrain

SpecClamp == InitClamp /\ [][NextClamp]_vars

(***************************************************************************)
(* C1: constrainTransform is idempotent: for every transform and every     *)
(* rect, applying it to its own result returns that result unchanged, in   *)
(* scale and in both translations.                                         *)
(***************************************************************************)
C1_Idempotent ==
    Len(ctRet) = 2 =>
        /\ ctRet[2].k = ctRet[1].k
        /\ ctRet[2].x = ctRet[1].x
        /\ ctRet[2].y = ctRet[1].y

\* both applications done, on a zoomed-in argument that the first one moved
\* on both axes
C1_Witness ==
    /\ Len(ctRet) = 2
    /\ ctArg.k > BaseZoomLimit
    /\ ctRet[1].x # ctArg.x
    /\ ctRet[1].y # ctArg.y
    /\ svgRect.width > 0

(***************************************************************************)
(* C2: for every transform whose scale is at or below 1.05 and every rect, *)
(* constrainTransform returns translations 0 and 0, whatever the pan       *)
(* asked for.                                                              *)
(***************************************************************************)
C2_NoPanAtBaseZoom ==
    (Len(ctRet) >= 1 /\ ctArg.k <= BaseZoomLimit) =>
        (ctRet[1].x = 0 /\ ctRet[1].y = 0)

\* applied at scale exactly 1.05 to a transform that asked for a pan
C2_Witness ==
    /\ Len(ctRet) >= 1
    /\ ctArg.k = BaseZoomLimit
    /\ ctArg.x # 0
    /\ ctArg.y # 0
    /\ ctRet[1].x = 0

(***************************************************************************)
(* SpecCamera: the camera-follow tick on a loaded map that was zoomed in   *)
(* by a wheel gesture and has run some ticks with the pointer at one       *)
(* place: further wheel gestures (also back to base zoom), pointer moves   *)
(* and ticks.                                                              *)
(***************************************************************************)
\* this.followIntensity = 0.02
DefaultFollowIntensity == 2

\* this.smoothness = 0.1
DefaultSmoothness == 10

\* the camera offset after n ticks under base, with the pointer at mouse
RECURSIVE Ticks(_, _, _, _)
Ticks(rect, mouse, base, n) ==
    IF n = 0 THEN [x |-> 0, y |-> 0]
    ELSE updateCameraPosition(rect, mouse, base, Ticks(rect, mouse, base, n - 1),
                              DefaultFollowIntensity, DefaultSmoothness)

\* scales of the wheel gestures: base zoom, 1.05, 1.06 and 4
CameraScales == {100, 105, 106, 400}

\* the loaded map after a wheel gesture to zoom, a pointer move to mouse and
\* n ticks; the history variables count from this state on
Followed(rect, zoom, mouse, n) ==
    /\ svgRect = rect
    /\ svgZoom = zoom
    /\ baseTransform = constrainTransform(zoom, rect)
    /\ cameraOffset = Ticks(rect, mouse, constrainTransform(zoom, rect), n)
    /\ mousePos = mouse
    /\ followIntensity = DefaultFollowIntensity
    /\ smoothness = DefaultSmoothness
    /\ gTransform = applyCameraTransform(
                        constrainTransform(zoom, rect),
                        Ticks(rect, mouse, constrainTransform(zoom, rect), n),
                        rect)
    /\ transitions = << >>
    /\ animationId = 1
    /\ rafQueue = {1}
    /\ lastStop = << >>
    /\ selectedCountry = Null
    /\ selectedClass = {}
    /\ infoHidden = TRUE
    /\ pc = "done"
    /\ config = DefaultConfig
    /\ cybersecurityData = EmptyMap
    /\ complianceCategories = DefaultCategories
    /\ countries = [loaded |-> TRUE, features |-> Features]
    /\ paths = Features \ {"Antarctica"}
    /\ handlers = {"country", "listeners", "search"}
    /\ reloadPc = "idle"
    /\ failedLoads = {}
    /\ loadedBy = [records |-> "loadGoogleSheetData",
                   categories |-> "loadConfig"]
    /\ uncaught = {}
    /\ frames = 0
    /\ requests = 0
    /\ latestTarget = << >>
    /\ disturbed = FALSE

InitCamera ==
    /\ \E r \in ViewRects, k \in GestureScales, x \in GesturePansX,
          y \in GesturePansY, m \in MousePoints, n \in 0..MaxTicks :
          Followed(r, [k |-> k, x |-> x, y |-> y], m, n)
    /\ NoProbe

NextCamera ==
    \/ \E id \in rafQueue : Frame(id)
    \/ \E p \in MousePoints : MouseMove(p)
    \/ \E k \in CameraScales, x \in GesturePansX, y \in GesturePansY :
          WheelZoom(k, x, y)

SpecCamera == InitCamera /\ [][NextCamera]_vars

(***************************************************************************)
(* C11: a camera-follow tick that runs while the base transform's scale is *)
(* at or below 1.05 moves the camera offset no further from zero on either *)
(* axis, wherever the pointer is, and writes a transform with translation  *)
(* (0, 0), whatever camera offset was accumulated before.                  *)
(***************************************************************************)
C11_NoFollowAtBaseZoom ==
    [][((\E id \in rafQueue : Frame(id)) /\ baseTransform.k <= BaseZoomLimit) =>
          /\ Abs(cameraOffset'.x) <= Abs(cameraOffset.x)
          /\ Abs(cameraOffset'.y) <= Abs(cameraOffset.y)
          /\ gTransform'.x = 0
          /\ gTransform'.y = 0]_vars

\* a tick has run at scale 1.05 with the pointer at the corner and has left
\* 3.42 px of the 3.8 px of offset accumulated at scale 4
C11_Witness ==
    /\ frames = 1
    /\ baseTransform.k = BaseZoomLimit
    /\ mousePos = [x |-> 0, y |-> 0]
    /\ cameraOffset.x = 342
    /\ gTransform.x = 0
    /\ gTransform.y = 0

(***************************************************************************)
(* SpecLookup: probes of the lookup functions getCountryName,              *)
(* getCybersecurityData and getCountryColor: the feature's properties, the *)
(* name, this.cybersecurityData and this.complianceCategories are drawn,   *)
(* and one of the functions is called on them.                             *)
(***************************************************************************)
\* the name fields in getCountryName's order
NameFields == <<"NAME", "NAME_EN", "NAME_LONG", "ADMIN", "sovereignt", "name">>

\* every feature with each name field either absent or empty ("") or
\* holding a string of its own
ProbeProperties ==
    [NAME : {"", "France"}, NAME_EN : {"", "French Republic"},
     NAME_LONG : {"", "Republique francaise"}, ADMIN : {"", "Brazil"},
     sovereignt : {"", "Brasil"}, name : {"", "Fr."}]

\* names looked up: keys, aliases, a name of neither kind, and a name every
\* object inherits
LookupNames ==
    {"France", "United States", "USA", "Russian Federation", "Atlantis",
     "constructor"}

\* the record loaded under key n, with a status of its own
RecordOf(n) ==
    Record(CASE n = "United States" -> "compliant"
             [] n = "USA" -> "pending"
             [] n = "France" -> "partial"
             [] n = "Russia" -> "")

\* this.cybersecurityData: records under any of four keys
ProbeData ==
    {[n \in keys |-> RecordOf(n)] :
        keys \in SUBSET {"United States", "USA", "France", "Russia"}}

\* this.complianceCategories: none, without and with "unknown"
ProbeCategories ==
    {EmptyMap, Categories({"compliant"}), Categories({"compliant", "unknown"})}

InitLookup ==
    /\ \E r \in ViewRects : AfterConstructor(r)
    /\ ctArg = zoomIdentity
    /\ ctRet = << >>
    /\ fnArg \in [properties : ProbeProperties, name : LookupNames,
                  data : ProbeData, categories : ProbeCategories]
    /\ fnRet = [called |-> "none"]

CallGetCountryName ==
    /\ fnRet.called = "none"
    /\ fnRet' = [called |-> "getCountryName",
                 value |-> getCountryNameOf(fnArg.properties)]
    /\ UNCHANGED <<viewVars, loopVars, selVars, dataVars, histVars, ctArg,
                   ctRet, fnArg>>

CallGetCybersecurityData ==
    /\ fnRet.called = "none"
    /\ fnRet' = [called |-> "getCybersecurityData",
                 value |-> getCybersecurityData(fnArg.name, fnArg.data)]
    /\ UNCHANGED <<viewVars, loopVars, selVars, dataVars, histVars, ctArg,
                   ctRet, fnArg>>

CallGetCountryColor ==
    /\ fnRet.called = "none"
    /\ fnRet' = [called |-> "getCountryColor",
                 value |-> getCountryColor(fnArg.name, fnArg.data,
                                           fnArg.categories)]
    /\ UNCHANGED <<viewVars, loopVars, selVars, dataVars, histVars, ctArg,
                   ctRet, fnArg>>

NextLookup ==
    \/ CallGetCountryName
    \/ CallGetCybersecurityData
    \/ CallGetCountryColor

SpecLookup == InitLookup /\ [][NextLookup]_vars

(***************************************************************************)
(* C12: getCybersecurityData returns, for every name, the record loaded    *)
(* under that very name if there is one; else the record loaded under the  *)
(* name's alias if the alias table has the name and that record is         *)
(* loaded; else null.                                                      *)
(***************************************************************************)
C12_DirectThenAlias ==
    fnRet.called = "getCybersecurityData" =>
        fnRet.value =
            IF fnArg.name \in DOMAIN fnArg.data
            THEN fnArg.data[fnArg.name]
            ELSE IF fnArg.name \in DOMAIN variations
                    /\ variations[fnArg.name] \in DOMAIN fnArg.data
                 THEN fnArg.data[variations[fnArg.name]]
                 ELSE NoRecord

\* "USA" looked up with only "United States" loaded: its record is returned
C12_Witness ==
    /\ fnRet.called = "getCybersecurityData"
    /\ fnArg.name = "USA"
    /\ DOMAIN fnArg.data = {"United States"}
    /\ fnRet.value = RecordOf("United States")

(***************************************************************************)
(* C13: getCountryName returns the first non-empty value among NAME,       *)
(* NAME_EN, NAME_LONG, ADMIN, sovereignt and name, in that order, and      *)
(* "Unknown" when every one of them is absent or empty.                    *)
(***************************************************************************)
C13_FirstNameField ==
    fnRet.called = "getCountryName" =>
        LET p == fnArg.properties
            present == {i \in 1..Len(NameFields) : p[NameFields[i]] # ""}
        IN  IF present = {} THEN fnRet.value = "Unknown"
            ELSE \E i \in present :
                    /\ \A j \in present : i <= j
                    /\ fnRet.value = p[NameFields[i]]

\* a feature with ADMIN and lower fields only: ADMIN's value is returned
C13_Witness ==
    /\ fnRet.called = "getCountryName"
    /\ fnArg.properties.NAME = ""
    /\ fnArg.properties.NAME_EN = ""
    /\ fnArg.properties.NAME_LONG = ""
    /\ fnArg.properties.ADMIN = "Brazil"
    /\ fnArg.properties.name = "Fr."
    /\ fnRet.value = "Brazil"

(***************************************************************************)
(* C16: for a name with no record, neither under the name nor under its    *)
(* alias, getCountryColor returns the color of the "unknown" category if   *)
(* there is one and "#e0e0e0" if there is none.                            *)
(***************************************************************************)
C16_ColorWithoutRecord ==
    (/\ fnRet.called = "getCountryColor"
     /\ fnArg.name \notin DOMAIN fnArg.data
     /\ ~(fnArg.name \in DOMAIN variations
          /\ variations[fnArg.name] \in DOMAIN fnArg.data)) =>
        fnRet.value = IF "unknown" \in DOMAIN fnArg.categories
                      THEN fnArg.categories["unknown"].color
                      ELSE "#e0e0e0"

\* "Atlantis" with records loaded and categories without "unknown"
C16_Witness ==
    /\ fnRet.called = "getCountryColor"
    /\ fnArg.name = "Atlantis"
    /\ fnArg.data # EmptyMap
    /\ fnArg.categories = Categories({"compliant"})
    /\ fnRet.value = "#e0e0e0"

(***************************************************************************)
(* C14: for every transform with scale above 1.05 and every rect (w, h),   *)
(* constrainTransform returns x in [-(w * scale - 0.2 * w), 0.2 * w] and   *)
(* y in [-(h * scale - 0.2 * h), 0.2 * h]; on each axis, whatever the      *)
(* other axis does, a value inside the range comes back unchanged and a    *)
(* value outside comes back as the nearer end of the range.                *)
(***************************************************************************)
Clamped(v, lo, hi) == IF v < lo THEN lo ELSE IF v > hi THEN hi ELSE v

C14_PanRange ==
    (Len(ctRet) >= 1 /\ ctArg.k > BaseZoomLimit) =>
        LET loX == -(Mul(svgRect.width, ctArg.k) - Mul(svgRect.width, 20))
            hiX == Mul(svgRect.width, 20)
            loY == -(Mul(svgRect.height, ctArg.k) - Mul(svgRect.height, 20))
            hiY == Mul(svgRect.height, 20)
        IN  /\ loX <= ctRet[1].x /\ ctRet[1].x <= hiX
            /\ loY <= ctRet[1].y /\ ctRet[1].y <= hiY
            /\ ctRet[1].x = Clamped(ctArg.x, loX, hiX)
            /\ ctRet[1].y = Clamped(ctArg.y, loY, hiY)

\* zoomed in on a 200 x 200 px rect, x outside its range and clamped, y
\* inside its range and unchanged
C14_Witness ==
    /\ Len(ctRet) >= 1
    /\ ctArg.k = 250
    /\ svgRect = [width |-> 20000, height |-> 20000]
    /\ ctArg.x = 30000
    /\ ctRet[1].x = 4000
    /\ ctArg.y = -10000
    /\ ctRet[1].y = -10000

(***************************************************************************)
(* C15: for every input transform, also one whose scale is below 1 or      *)
(* above 8, the transform constrainTransform returns has its scale in      *)
(* [1, 8].                                                                 *)
(***************************************************************************)
C15_ScaleReclamped ==
    Len(ctRet) >= 1 =>
        (MinScale <= ctRet[1].k /\ ctRet[1].k <= MaxScale)

(***************************************************************************)
(* SpecReload: init() as in SpecLoad, together with what can run between   *)
(* its awaits and after it: calls of reloadConfig() and their two fetches, *)
(* the search box's "input" handler, the click on the svg's background     *)
(* and the camera-follow tick.                                             *)
(***************************************************************************)
\* a call of reloadConfig(), up to loadConfig's first await
reloadConfig ==
    /\ reloadPc = "idle"
    /\ reloadPc' = "config"
    /\ UNCHANGED <<pc, config, cybersecurityData, complianceCategories,
                   countries, paths, handlers, failedLoads, loadedBy, uncaught>>
    /\ UNCHANGED <<viewVars, loopVars, selVars, histVars, probeVars>>

\* reloadConfig, once loadConfig has returned: the paths get their fill
\* from getCountryColor, and a fill that throws rejects the call
Restyled(data, categories) ==
    uncaught' = uncaught \cup
        {[callback |-> "reloadConfig", read |-> "complianceCategories"] :
            d \in {p \in paths : getCountryColor(getCountryName(p), data,
                                                 categories) = TypeError}}

\* reloadConfig: loadConfig's fetch of config.json settles
ReloadFetchConfig ==
    /\ reloadPc = "config"
    /\ \/ /\ \E c \in ConfigFiles : config' = c
          /\ reloadPc' = "data"
          /\ UNCHANGED <<cybersecurityData, complianceCategories, loadedBy,
                         uncaught>>
       \/ /\ loadConfigCatch
          /\ BothLoadedBy("reloadConfig")
          /\ Restyled(EmptyMap, DefaultCategories)
          /\ reloadPc' = "idle"
    /\ UNCHANGED <<pc, countries, paths, handlers, failedLoads>>
    /\ UNCHANGED <<viewVars, loopVars, selVars, histVars, probeVars>>

\* reloadConfig: loadConfig's fetch of the cybersecurity data settles
ReloadFetchData ==
    /\ reloadPc = "data"
    /\ \/ /\ \E f \in DataFiles :
                /\ cybersecurityData' = f.countries
                /\ complianceCategories' = f.complianceCategories
                /\ Restyled(f.countries, f.complianceCategories)
          /\ UNCHANGED config
       \/ /\ loadConfigCatch
          /\ Restyled(EmptyMap, DefaultCategories)
    /\ BothLoadedBy("reloadConfig")
    /\ reloadPc' = "idle"
    /\ UNCHANGED <<pc, countries, paths, handlers, failedLoads>>
    /\ UNCHANGED <<viewVars, loopVars, selVars, histVars, probeVars>>

\* the search box's "input" handler on a query of two characters or more:
\* it filters this.countries.features, which throws while this.countries
\* is null
SearchInput ==
    /\ "search" \in handlers
    /\ uncaught' = uncaught \cup
          (IF countries.loaded THEN {}
           ELSE {[callback |-> "input", read |-> "countries"]})
    /\ UNCHANGED <<pc, config, cybersecurityData, complianceCategories,
                   countries, paths, handlers, reloadPc, failedLoads, loadedBy>>
    /\ UNCHANGED <<viewVars, loopVars, selVars, histVars, probeVars>>

NextReload ==
    \/ FetchConfig
    \/ FetchData
    \/ FetchWorld
    \/ FetchSheet
    \/ reloadConfig
    \/ ReloadFetchConfig
    \/ ReloadFetchData
    \/ SearchInput
    \/ deselectCountry
    \/ \E id \in rafQueue : Frame(id)

SpecReload == InitLoad /\ [][NextReload]_vars

(***************************************************************************)
(* C18: no callback reads the country features before the topology that    *)
(* provides them is loaded: after a failed or still pending load, none     *)
(* throws on this.countries.                                               *)
(***************************************************************************)
C18_NoReadOfMissingData ==
    \A e \in uncaught : e.read # "countries"

(***************************************************************************)
(* C19: the records and the categories are replaced together: whenever a   *)
(* callback can run, both were last assigned by the same load.             *)
(***************************************************************************)
C19_ReplacedTogether ==
    loadedBy.records = loadedBy.categories

(***************************************************************************)
(* SpecZoomTo: zoomToCountry on the loaded map for a feature of any        *)
(* bounding box inside the viewport, the transition it requests, the       *)
(* camera-follow tick and a wheel gesture.                                 *)
(***************************************************************************)
\* positions along the viewport's width and height, in hundredths of it
BoxEdges == {0, 2, 7, 50, 97, 100}

\* the bounding boxes inside a viewport of size rect
ProbeBoxes(rect) ==
    LET boxes ==
          {<< <<Mul(rect.width, x0), Mul(rect.height, y0)>>,
              <<Mul(rect.width, x1), Mul(rect.height, y1)>> >> :
              x0 \in BoxEdges, x1 \in BoxEdges, y0 \in BoxEdges,
              y1 \in BoxEdges}
    IN  {bs \in boxes : bs[1][1] < bs[2][1] /\ bs[1][2] < bs[2][2]}

InitZoomTo ==
    /\ \E r \in ViewRects :
          /\ Loaded(r)
          /\ \E bs \in ProbeBoxes(r) : fnArg = [bounds |-> bs]
    /\ fnRet = [called |-> "none"]
    /\ ctArg = zoomIdentity
    /\ ctRet = << >>

\* zoomToCountry(d) for a feature d whose bounding box is fnArg.bounds
zoomToCountry ==
    /\ fnRet.called = "none"
    /\ fnRet' = [called |-> "zoomToCountry"]
    /\ RequestTransition(zoomToCountryOf(fnArg.bounds, svgRect))
    /\ UNCHANGED <<svgRect, svgZoom, baseTransform, cameraOffset, mousePos,
                   followIntensity, smoothness, gTransform>>
    /\ UNCHANGED <<loopVars, selVars, dataVars, frames, ctArg, ctRet, fnArg>>

NextZoomTo ==
    \/ zoomToCountry
    \/ TransitionStart
    \/ TransitionFrame
    \/ TransitionEnd
    \/ \E id \in rafQueue : Frame(id)
    \/ \E k \in GestureScales, x \in GesturePansX, y \in GesturePansY :
          WheelZoom(k, x, y)

SpecZoomTo == InitZoomTo /\ [][NextZoomTo]_vars

(***************************************************************************)
(* C20: once the transition zoomToCountry requested for a bounding box     *)
(* inside the viewport has ended with no gesture after the request, the    *)
(* base transform has the scale min(maxScale, 0.9 / max(bw/w, bh/h)) and   *)
(* maps the box's centre to the viewport's centre.                         *)
(***************************************************************************)
C20_ZoomToCountry ==
    (/\ fnRet.called = "zoomToCountry"
     /\ latestTarget # << >>
     /\ ~disturbed
     /\ transitions = << >>) =>
        LET bs == fnArg.bounds
            bw == bs[2][1] - bs[1][1]
            bh == bs[2][2] - bs[1][2]
            cx == Div(bs[1][1] + bs[2][1], 200)
            cy == Div(bs[1][2] + bs[2][2], 200)
            scale == Min(MaxScale, Div(90, Max(Div(bw, svgRect.width),
                                               Div(bh, svgRect.height))))
        IN  /\ baseTransform.k = scale
            /\ baseTransform.x + Mul(scale, cx) = Div(svgRect.width, 200)
            /\ baseTransform.y + Mul(scale, cy) = Div(svgRect.height, 200)

(***************************************************************************)
(* SpecZero: the loaded map in a container that may collapse to zero       *)
(* width or height and grow again: resizes, camera-follow ticks, wheel     *)
(* gestures and pointer moves.                                             *)
(***************************************************************************)
\* containers without width, without height and without both
ZeroRects == {[width |-> 0, height |-> 50000],
              [width |-> 100000, height |-> 0],
              [width |-> 0, height |-> 0]}

NextZero ==
    \/ \E r \in ViewRects \cup ZeroRects : handleResize(r)
    \/ \E id \in rafQueue : Frame(id)
    \/ \E k \in GestureScales, x \in GesturePansX, y \in GesturePansY :
          WheelZoom(k, x, y)
    \/ \E p \in MousePoints : MouseMove(p)

SpecZero == Init /\ [][NextZero]_vars

(***************************************************************************)
(* C21: a viewport of zero width or height never makes the camera offset   *)
(* or the rendered transform non-finite: a tick on it leaves numbers, so   *)
(* that the ticks after the viewport has grown again render valid          *)
(* transforms.                                                             *)
(***************************************************************************)
C21_FiniteAtZeroExtent ==
    /\ cameraOffset.x # NaN /\ cameraOffset.y # NaN
    /\ gTransform.x # NaN /\ gTransform.y # NaN

(***************************************************************************)
(* SpecTarget: the target offset of one camera-follow tick, for a pointer  *)
(* inside and outside the viewport, at and above base zoom, and for        *)
(* several follow intensities.                                             *)
(***************************************************************************)
\* positions along the viewport's width and height, in hundredths of it:
\* outside before the origin, the origin, the centre, three quarters, the
\* far edge and outside beyond it
PointerSteps == {-50, 0, 50, 75, 100, 200}

\* this.followIntensity: off, the default 0.02, and 0.1
ProbeIntensities == {0, 2, 10}

InitTarget ==
    /\ \E r \in ViewRects : Loaded(r)
    /\ ctArg = zoomIdentity
    /\ ctRet = << >>
    /\ \E px \in PointerSteps, py \in PointerSteps, k \in CameraScales,
          i \in ProbeIntensities :
          fnArg = [mouse |-> [x |-> Mul(svgRect.width, px),
                              y |-> Mul(svgRect.height, py)],
                   base |-> [k |-> k, x |-> 0, y |-> 0],
                   intensity |-> i]
    /\ fnRet = [called |-> "none"]

\* the first half of updateCameraPosition() with this.mousePos,
\* this.baseTransform and this.followIntensity as in fnArg
CallTargetOffset ==
    /\ fnRet.called = "none"
    /\ fnRet' = [called |-> "targetOffset",
                 value |-> targetOffset(svgRect, fnArg.mouse, fnArg.base,
                                        fnArg.intensity)]
    /\ UNCHANGED <<viewVars, loopVars, selVars, dataVars, histVars, ctArg,
                   ctRet, fnArg>>

NextTarget == CallTargetOffset

SpecTarget == InitTarget /\ [][NextTarget]_vars

\* the pointer is at the viewport's centre
AtCentre ==
    /\ fnArg.mouse.x = Div(svgRect.width, 200)
    /\ fnArg.mouse.y = Div(svgRect.height, 200)

\* the pointer is at one of the viewport's corners
AtCorner ==
    /\ fnArg.mouse.x \in {0, svgRect.width}
    /\ fnArg.mouse.y \in {0, svgRect.height}

\* -1 at the origin's side of the centre, 1 at the far side
Side(p) == IF p = 0 THEN -1 ELSE 1

(***************************************************************************)
(* C22, as claimed: at base scale 4 the target offset is 0 for a pointer   *)
(* at the centre and, for a pointer at a corner, followIntensity times     *)
(* half the viewport's width / height, away from the pointer's side.       *)
(***************************************************************************)
C22_CornerHalfExtent ==
    (fnRet.called = "targetOffset" /\ fnArg.base.k = 400) =>
        /\ AtCentre => fnRet.value = [x |-> 0, y |-> 0]
        /\ AtCorner =>
              /\ fnRet.value.x =
                    -Side(fnArg.mouse.x)
                        * Mul(fnArg.intensity, Div(svgRect.width, 200))
              /\ fnRet.value.y =
                    -Side(fnArg.mouse.y)
                        * Mul(fnArg.intensity, Div(svgRect.height, 200))

(***************************************************************************)
(* C22, amended: at base scale 4 the target offset is 0 for a pointer at   *)
(* the centre and, for a pointer at a corner, followIntensity times the    *)
(* viewport's whole width / height, away from the pointer's side.          *)
(***************************************************************************)
C22_CornerFullExtent ==
    (fnRet.called = "targetOffset" /\ fnArg.base.k = 400) =>
        /\ AtCentre => fnRet.value = [x |-> 0, y |-> 0]
        /\ AtCorner =>
              /\ fnRet.value.x =
                    -Side(fnArg.mouse.x)
                        * Mul(fnArg.intensity, svgRect.width)
              /\ fnRet.value.y =
                    -Side(fnArg.mouse.y)
                        * Mul(fnArg.intensity, svgRect.height)

\* the pointer at the bottom right corner of the 1000 x 500 px viewport, at
\* scale 4 and the default intensity: the target is (-20 px, -10 px)
C22_Witness ==
    /\ fnRet.called = "targetOffset"
    /\ fnArg.base.k = 400
    /\ fnArg.intensity = DefaultFollowIntensity
    /\ fnArg.mouse = [x |-> 100000, y |-> 50000]
    /\ fnRet.value = [x |-> -2000, y |-> -1000]

(***************************************************************************)
(* C24: on each axis the target offset is -normalized * effectiveIntensity *)
(* * extent, normalized being the pointer's offset from the centre over    *)
(* the half extent, unclamped: target * halfExtent = -(pointer - centre)   *)
(* * effectiveIntensity * extent, also for a pointer outside the viewport. *)
(***************************************************************************)
C24_TargetUnclamped ==
    fnRet.called = "targetOffset" =>
        LET effectiveIntensity ==
                IF fnArg.base.k <= BaseZoomLimit THEN 0 ELSE fnArg.intensity
            halfWidth == Div(svgRect.width, 200)
            halfHeight == Div(svgRect.height, 200)
        IN  /\ fnRet.value.x * halfWidth =
                  -(fnArg.mouse.x - halfWidth)
                      * Mul(effectiveIntensity, svgRect.width)
            /\ fnRet.value.y * halfHeight =
                  -(fnArg.mouse.y - halfHeight)
                      * Mul(effectiveIntensity, svgRect.height)

\* the pointer a viewport's width beyond the right edge and half a
\* viewport's height above the top edge of the 1000 x 500 px viewport, at
\* scale 4 and the default intensity: normalized is (3, -2), the target
\* (-60 px, 20 px)
C24_Witness ==
    /\ fnRet.called = "targetOffset"
    /\ fnArg.base.k = 400
    /\ fnArg.intensity = DefaultFollowIntensity
    /\ fnArg.mouse = [x |-> 200000, y |-> -25000]
    /\ fnRet.value = [x |-> -6000, y |-> 2000]

(***************************************************************************)
(* SpecRestart: the camera-follow loop stopped and restarted on a map      *)
(* that has been zoomed and followed the pointer for some ticks: calls of  *)
(* disableCameraFollow and enableCameraFollow, frame callbacks, pointer    *)
(* moves and wheel gestures.                                               *)
(***************************************************************************)
NextRestart ==
    \/ disableCameraFollow
    \/ enableCameraFollow
    \/ \E id \in rafQueue : Frame(id)
    \/ \E p \in MousePoints : MouseMove(p)
    \/ \E k \in CameraScales, x \in GesturePansX, y \in GesturePansY :
          WheelZoom(k, x, y)

SpecRestart == InitCamera /\ [][NextRestart]_vars

(***************************************************************************)
(* C23: from disableCameraFollow on, through enableCameraFollow and until  *)
(* the next tick, the camera offset is what it was at the stop; and the    *)
(* first tick after the restart moves it from that value toward the        *)
(* target by the fraction smoothness.                                      *)
(***************************************************************************)
C23_OffsetPersists ==
    /\ []((lastStop # << >> /\ ~lastStop[1].ticked) =>
             cameraOffset = lastStop[1].offset)
    /\ [][(/\ lastStop # << >>
           /\ lastStop[1].restarted
           /\ ~lastStop[1].ticked
           /\ \E id \in rafQueue : Frame(id)) =>
             LET target == targetOffset(svgRect, mousePos, baseTransform,
                                        followIntensity)
                 from == lastStop[1].offset
             IN  /\ cameraOffset'.x - from.x
                       = Mul(target.x - from.x, smoothness)
                 /\ cameraOffset'.y - from.y
                       = Mul(target.y - from.y, smoothness)]_vars

\* the loop was stopped with the camera offset away from zero and started
\* again, and the tick after the restart has moved the offset on from the
\* value at the stop
C23_Witness ==
    /\ lastStop # << >>
    /\ lastStop[1].restarted
    /\ lastStop[1].ticked
    /\ lastStop[1].offset.x = 380
    /\ cameraOffset.x = 542
    /\ animationId # 0

(***************************************************************************)
(* SpecSmooth: successive camera-follow ticks with the pointer, the        *)
(* viewport and the base transform held fixed, from several camera         *)
(* offsets and for several values of smoothness.                           *)
(***************************************************************************)
\* this.smoothness: the least value setCameraFollowSettings lets through
\* (0.01), the default 0.1, 0.5 and the greatest (1)
ProbeSmoothness == {1, DefaultSmoothness, 50, 100}

\* camera offsets the ticks start from: none, and 50 px left and 30 px down
ProbeOffsets == {[x |-> 0, y |-> 0], [x |-> -5000, y |-> 3000]}

InitSmooth ==
    /\ \E r \in ViewRects, px \in PointerSteps, py \in {50, 100},
          k \in GestureScales, s \in ProbeSmoothness, o \in ProbeOffsets :
          /\ Loaded(r)
          /\ fnArg = [mouse |-> [x |-> Mul(r.width, px),
                                 y |-> Mul(r.height, py)],
                      base |-> [k |-> k, x |-> 0, y |-> 0],
                      intensity |-> DefaultFollowIntensity,
                      smooth |-> s,
                      offset |-> o]
    /\ ctArg = zoomIdentity
    /\ ctRet = << >>
    /\ fnRet = [called |-> "none"]

\* the camera offset the ticks so far have left
TickedOffset == IF fnRet.called = "none" THEN fnArg.offset ELSE fnRet.offset

\* the target of every one of the ticks
TickTarget ==
    targetOffset(svgRect, fnArg.mouse, fnArg.base, fnArg.intensity)

\* one more updateCameraPosition() on the inputs of fnArg
Tick ==
    /\ fnRet' = [called |-> "updateCameraPosition",
                 offset |-> updateCameraPosition(svgRect, fnArg.mouse,
                                                 fnArg.base, TickedOffset,
                                                 fnArg.intensity,
                                                 fnArg.smooth)]
    /\ UNCHANGED <<viewVars, loopVars, selVars, dataVars, histVars, ctArg,
                   ctRet, fnArg>>

NextSmooth == Tick

SpecSmooth == InitSmooth /\ [][NextSmooth]_vars /\ WF_vars(Tick)

\* v lies between a and b
Between(v, a, b) == Min(a, b) <= v /\ v <= Max(a, b)

\* the ticks have come to rest: one more leaves the offset as it is
Converged == smoothed(TickedOffset, TickTarget, fnArg.smooth) = TickedOffset

\* the offset is as near the target as steps of the fraction smoothness
\* can bring it: the next step is below the arithmetic's resolution
NearTarget ==
    /\ Abs(TickTarget.x - TickedOffset.x) * fnArg.smooth < 100
    /\ Abs(TickTarget.y - TickedOffset.y) * fnArg.smooth < 100

(***************************************************************************)
(* C25: a tick adds (target - offset) * smoothness to the camera offset;   *)
(* for smoothness in (0, 1] the new offset lies between the old one and    *)
(* the target on each axis, so the distance to the target does not grow;   *)
(* and with the pointer, the viewport and the base transform fixed the     *)
(* ticks come to rest, and they rest only as near the target as the        *)
(* arithmetic resolves.                                                    *)
(***************************************************************************)
C25_SmoothsTowardTarget ==
    /\ [](Converged => NearTarget)
    /\ [][fnRet'.called = "updateCameraPosition" =>
             /\ Abs((fnRet'.offset.x - TickedOffset.x) * 100
                    - (TickTarget.x - TickedOffset.x) * fnArg.smooth) < 100
             /\ Abs((fnRet'.offset.y - TickedOffset.y) * 100
                    - (TickTarget.y - TickedOffset.y) * fnArg.smooth) < 100
             /\ Between(fnRet'.offset.x, TickedOffset.x, TickTarget.x)
             /\ Between(fnRet'.offset.y, TickedOffset.y, TickTarget.y)
             /\ Abs(TickTarget.x - fnRet'.offset.x)
                   <= Abs(TickTarget.x - TickedOffset.x)
             /\ Abs(TickTarget.y - fnRet'.offset.y)
                   <= Abs(TickTarget.y - TickedOffset.y)]_vars
    /\ <>[]Converged

\* ticks at the default smoothness, from the offset (-50 px, 30 px) toward
\* the target (20 px, 0) of a pointer at the left edge's middle, have
\* brought the offset on its way: x is past 0, y below 1 px
C25_Witness ==
    /\ fnRet.called = "updateCameraPosition"
    /\ fnArg.smooth = DefaultSmoothness
    /\ fnArg.offset = [x |-> -5000, y |-> 3000]
    /\ TickTarget = [x |-> 2000, y |-> 0]
    /\ fnRet.offset.x > 0 /\ fnRet.offset.x < 2000
    /\ fnRet.offset.y < 100
    /\ ~Converged

(***************************************************************************)
(* SpecWriters: the callbacks that write the view of the loaded map, side  *)
(* by side: wheel and drag gestures, the transitions of a zoom to a        *)
(* country, camera-follow ticks, pointer moves and clicks on countries.    *)
(***************************************************************************)
NextWriters ==
    \/ \E id \in rafQueue : Frame(id)
    \/ \E p \in MousePoints : MouseMove(p)
    \/ \E k \in GestureScales, x \in GesturePansX, y \in GesturePansY :
          WheelZoom(k, x, y)
    \/ \E x \in DragPansX, y \in GesturePansY : DragPan(x, y)
    \/ \E d \in Features : onCountryClick(d)
    \/ TransitionStart
    \/ TransitionFrame
    \/ TransitionEnd

SpecWriters == Init /\ [][NextWriters]_vars

\* the variables other than the sampled pointer position
exceptMousePos ==
    <<svgRect, svgZoom, baseTransform, cameraOffset, followIntensity,
      smoothness, gTransform, transitions, selVars, dataVars>>

(***************************************************************************)
(* C26: the writers are disjoint.  A step that changes the base transform  *)
(* (a zoom or pan event) leaves the camera offset, the pointer position    *)
(* and the selection; a step that changes the camera offset (a tick)       *)
(* leaves the base transform, the pointer position and the selection; a    *)
(* step that changes the pointer position (a mousemove) leaves everything  *)
(* else, the animation loop's bookkeeping apart.                           *)
(***************************************************************************)
C26_DisjointWriters ==
    [][/\ (baseTransform' # baseTransform \/ svgZoom' # svgZoom) =>
             /\ cameraOffset' = cameraOffset
             /\ mousePos' = mousePos
             /\ selVars' = selVars
       /\ cameraOffset' # cameraOffset =>
             /\ baseTransform' = baseTransform
             /\ svgZoom' = svgZoom
             /\ mousePos' = mousePos
             /\ selVars' = selVars
       /\ mousePos' # mousePos =>
             /\ exceptMousePos' = exceptMousePos
             /\ loopVars' = loopVars]_vars

\* at scale 4 with France selected, a tick has moved the camera offset
\* while the pointer was at the corner, and the pointer has moved on to the
\* centre
C26_Witness ==
    /\ baseTransform.k = 400
    /\ selectedCountry = "France"
    /\ frames = 1
    /\ cameraOffset.x # 0
    /\ mousePos = [x |-> 50000, y |-> 25000]

=============================================================================
